---- MODULE Spec2Model ----
(***************************************************************************)
(* Model of the claude-plugin hook-dispatch host (go-claude-hook).         *)
(*                                                                         *)
(* One behaviour is one run of the host process with the "execute"         *)
(* command: the plugins named on the command line are loaded into the      *)
(* PluginManager, the event is read from standard input, the plugins are   *)
(* invoked one after the other and the process exits through               *)
(* Result.ExitWithMessage, through main's error path or through a panic.   *)
(*                                                                         *)
(* SpecSamples is the same run with the two plugins of the repository,     *)
(* env and gocheck, on events that carry a file path.  SpecPM is a client  *)
(* of the PluginManager that calls LoadPlugin, UnloadPlugin, Shutdown and  *)
(* LoadAllPlugins one at a time in any order.  SpecCmdLine is the run of   *)
(* one fixed command line, SpecTypes a plugin method building a verdict    *)
(* with the builders of types.go, SpecLock goroutines calling one          *)
(* PluginManager concurrently, SpecConfigure the "configure" command run   *)
(* repeatedly on one settings file.                                        *)
(*                                                                         *)
(* Texts are sequences of tokens.  A token is one character ("a", "%",     *)
(* "\n", the invalid UTF-8 byte "xFF", the replacement rune "uFFFD", the   *)
(* quote "\"") or a fixed piece of text that contains no '%'.              *)
(***************************************************************************)
EXTENDS Naturals, Integers, Sequences, FiniteSets, TLC

VARIABLES
    goOmitZero,   \* the toolchain honours the json option "omitzero" (Go >= 1.24)
    pluginPaths,  \* config.pluginPaths still to be loaded by loadPlugins
    pm,           \* the PluginManager: plugins and pluginPaths maps
    pc,           \* position of the process
    stdinRead,    \* standard input has been read
    input,        \* the event read from standard input
    hookType,     \* result of extractHookType
    plugins,      \* the slice returned by pm.Plugins()
    idx,          \* completed iterations of the dispatch loop
    lastResult,   \* *lastResult of handleExecuteCommand
    invoked,      \* history: the plugin methods called, in order
    lastResp,     \* history: what the last called plugin method returned
    codes,        \* history: Code of the Result of each loop iteration
    outcome,      \* history: the Result the process ended with, if any
    exitCode,     \* process exit status
    stdout,       \* text written to standard output
    stderr,       \* text written to standard error
    lastOp,       \* history: the last call a client made on the PluginManager (SpecPM)
    cleanups,     \* history: the instances whose Cleanup has been called
    mu,           \* pm.mu: the goroutine holding Lock and those holding RLock
    calls,        \* each goroutine's position in its call on the PluginManager
    settings      \* the file ./.claude/settings.local.json

vars == <<goOmitZero, pluginPaths, pm, pc, stdinRead, input, hookType, plugins,
          idx, lastResult, invoked, lastResp, codes, outcome, exitCode, stdout,
          stderr, lastOp, cleanups, mu, calls, settings>>

(* the variables of the run of the process; the histories of the          *)
(* PluginManager, its lock and its concurrent callers, the settings file  *)
runVars == <<goOmitZero, pluginPaths, pc, stdinRead, input, hookType, plugins, idx,
             lastResult, invoked, lastResp, codes, outcome, exitCode, stdout, stderr>>
pmVars == <<lastOp, cleanups, mu, calls, settings>>

----------------------------------------------------------------------------
(* Bounds *)

MaxPlugins == 2
MaxStrLen == 1
MaxGoroutines == 2
MaxConfigs == 2

(* Program constants *)

ExitCodeSuccess == 0
ExitCodeBlockingError == 2
ExitCodeError == 1

(* Exit status of a Go program that ends in an unrecovered panic *)
GoPanicExit == 2

----------------------------------------------------------------------------
(* Texts *)

Chars == {"a", "xFF"}

RECURSIVE StrsUpTo(_)
StrsUpTo(n) ==
    IF n = 0 THEN {<<>>}
    ELSE LET S == StrsUpTo(n - 1)
         IN  S \cup {Append(s, c) : s \in {t \in S : Len(t) = n - 1}, c \in Chars}

Strs == StrsUpTo(MaxStrLen)

----------------------------------------------------------------------------
(* Command line and plugin artifacts *)

Paths == {"x/a.so", "y/a.so", "x/b.so", "x/c.so"}

(* the artifacts of the two plugins of the repository *)
EnvPath == "x/env.so"
GoCheckPath == "x/gocheck.so"
SamplePaths == {EnvPath, GoCheckPath}

Base(path) ==
    CASE path = "x/a.so" -> "a.so"
      [] path = "y/a.so" -> "a.so"
      [] path = "x/b.so" -> "b.so"
      [] path = "x/c.so" -> "c.so"
      [] path = "x/env.so" -> "env.so"
      [] path = "x/gocheck.so" -> "gocheck.so"

Abs(path) == <<"/cwd/", path>>

RECURSIVE SeqsUpTo(_, _)
(* the elements of a sequence *)
Elems(seq) == {seq[i] : i \in 1..Len(seq)}

SeqsUpTo(S, n) ==
    IF n = 0 THEN {<<>>}
    ELSE LET R == SeqsUpTo(S, n - 1)
         IN  R \cup {Append(s, x) : s \in {t \in R : Len(t) = n - 1}, x \in S}

ArtifactStates ==
    {"ok", "missing", "openfail", "nolookup", "badsig", "nilinst", "initfail"}

----------------------------------------------------------------------------
(* types.go: verdicts *)

(* *string: nil or a pointer to a text *)
NilStr == [set |-> FALSE, val |-> <<>>]
ptr(text) == [set |-> TRUE, val |-> text]

(* new(T) for BaseHookOutput, DecisionOutput and the three types defined   *)
(* from DecisionOutput.  Continue is a *bool: "nil", "true" or "false".    *)
ZeroVerdict ==
    [Continue |-> "nil", StopReason |-> <<>>, SuppressOutput |-> FALSE,
     Decision |-> NilStr, Reason |-> NilStr]

(* a pointer to a verdict, as the plugin methods return it *)
NilPtr == [nil |-> TRUE, v |-> ZeroVerdict]
PtrTo(v) == [nil |-> FALSE, v |-> v]

(* PreToolUseOutput.Approve(approved, msg...) ; msg is the variadic slice *)
Approve(o, approved, msg) ==
    IF approved
    THEN [o EXCEPT !.Decision = ptr(<<"approve">>),
                   !.Reason = IF Len(msg) > 0 THEN ptr(msg[1]) ELSE @]
    ELSE [o EXCEPT !.Decision = ptr(<<"block">>),
                   !.Reason = IF Len(msg) > 0 THEN ptr(msg[1])
                                              ELSE ptr(<<"rejected">>)]

(* BaseHookOutput.Stop(userMessage) *)
Stop(o, userMessage) ==
    LET o1 == IF o.Continue = "nil" THEN [o EXCEPT !.Continue = "true"] ELSE o
    IN  [o1 EXCEPT !.StopReason = userMessage]

(* StopOutput.NotAllowed(msg) *)
NotAllowed(o, msg) == [o EXCEPT !.Decision = ptr(<<"block">>), !.Reason = ptr(msg)]

(* variant of PreToolUseOutput.Default that leaves Continue alone *)
PreToolUseDefaultNoContinue(o) == Approve(o, TRUE, << <<>> >>)

PreToolUseDefault(o) ==
    LET o1 == IF o.Continue = "nil" THEN [o EXCEPT !.Continue = "true"] ELSE o
    IN  Approve(o1, TRUE, << <<>> >>)

(* variant of PostToolUseOutput.Default that leaves Continue alone *)
PostToolUseDefaultNoContinue(o) == o

PostToolUseDefault(o) ==
    IF o.Continue = "nil" THEN [o EXCEPT !.Continue = "true"] ELSE o

StopDefault(o) ==
    IF o.Continue = "nil" THEN [o EXCEPT !.Continue = "true"] ELSE o

(* types.go: Result *)

NewSuccess(data) == [Code |-> ExitCodeSuccess, Error |-> <<>>, Data |-> data]

NewError(msg) == [Code |-> ExitCodeError, Error |-> msg, Data |-> <<>>]

(* variant of IsSuccess that takes everything but a block for a success *)
IsSuccessUnlessBlock(r) == r.Code # ExitCodeBlockingError

IsSuccess(r) == r.Code = ExitCodeSuccess

NoResult == [Code |-> ExitCodeSuccess, Error |-> <<>>, Data |-> <<>>]

(* fmt.Fprintf(w, format) without operands: text is copied up to a '%';    *)
(* "%%" prints '%', a '%' that ends the format prints "%!(NOVERB)", and    *)
(* any other verb finds no operand and prints "%!v(MISSING)".              *)
RECURSIVE Fprintf(_)
Fprintf(format) ==
    IF format = <<>> THEN <<>>
    ELSE IF Head(format) # "%" THEN <<Head(format)>> \o Fprintf(Tail(format))
    ELSE IF Tail(format) = <<>> THEN <<"%!(NOVERB)">>
    ELSE IF format[2] = "%" THEN <<"%">> \o Fprintf(Tail(Tail(format)))
    ELSE <<"%!", (IF format[2] = "xFF" THEN "uFFFD" ELSE format[2]), "(MISSING)">>
         \o Fprintf(Tail(Tail(format)))

(* Result.ExitWithMessage: what is written where, and the exit status *)
ExitWithMessage(r) ==
    IF IsSuccess(r)
    THEN [out |-> <<>>,
          err |-> IF Len(r.Data) > 0 THEN Fprintf(r.Data) ELSE <<>>,
          code |-> r.Code]
    ELSE [out |-> <<>>,
          err |-> IF Len(r.Error) > 0 THEN Fprintf(r.Error) ELSE <<>>,
          code |-> r.Code]

----------------------------------------------------------------------------
(* encoding/json on verdicts.  A document is null or an object: the        *)
(* sequence of its members in struct field order.  A member value is a     *)
(* bool, a string (the text between the quotes, escapes included) or null. *)

JNullDoc == [t |-> "null", o |-> <<>>]
JObject(members) == [t |-> "obj", o |-> members]

JBool(k, b) == [k |-> k, t |-> "bool", b |-> b, s |-> <<>>]
JStr(k, s) == [k |-> k, t |-> "str", b |-> FALSE, s |-> s]
JNull(k) == [k |-> k, t |-> "null", b |-> FALSE, s |-> <<>>]

(* Marshal writes a Go string as a JSON string coerced to valid UTF-8:    *)
(* every invalid byte becomes the six-character escape for U+FFFD.        *)
EscapeString(text) ==
    [i \in 1..Len(text) |-> IF text[i] = "xFF" THEN "\\ufffd" ELSE text[i]]

(* Unmarshal decodes that escape to the replacement rune U+FFFD.          *)
UnescapeString(s) ==
    [i \in 1..Len(s) |-> IF s[i] = "\\ufffd" THEN "uFFFD" ELSE s[i]]

(* the members of the embedded BaseHookOutput, all of them omitempty *)
MarshalBase(v) ==
    (IF v.Continue = "nil" THEN <<>> ELSE <<JBool("continue", v.Continue = "true")>>)
    \o (IF v.StopReason = <<>> THEN <<>>
        ELSE <<JStr("stopReason", EscapeString(v.StopReason))>>)
    \o (IF v.SuppressOutput THEN <<JBool("suppressOutput", TRUE)>> ELSE <<>>)

(* a *string member tagged omitzero: omitted when nil where the toolchain  *)
(* knows the option, written as null where it does not                     *)
MarshalStrPtr(k, p) ==
    IF p.set THEN <<JStr(k, EscapeString(p.val))>>
    ELSE IF goOmitZero THEN <<>>
    ELSE <<JNull(k)>>

DecisionTypes == {"PreToolUseOutput", "PostToolUseOutput", "StopOutput", "DecisionOutput"}

(* json.Marshal(result) where result holds a pointer of type *typ *)
Marshal(typ, p) ==
    IF p.nil THEN JNullDoc
    ELSE IF typ \in DecisionTypes
    THEN JObject(MarshalBase(p.v) \o MarshalStrPtr("decision", p.v.Decision)
                                  \o MarshalStrPtr("reason", p.v.Reason))
    ELSE JObject(MarshalBase(p.v))

(* string(data): the bytes of a document *)
RenderMember(m) ==
    <<"\"", m.k, "\":">> \o
    (CASE m.t = "bool" -> <<IF m.b THEN "true" ELSE "false">>
       [] m.t = "str"  -> <<"\"">> \o m.s \o <<"\"">>
       [] m.t = "null" -> <<"null">>)

RECURSIVE RenderMembers(_)
RenderMembers(ms) ==
    IF ms = <<>> THEN <<>>
    ELSE IF Len(ms) = 1 THEN RenderMember(ms[1])
    ELSE RenderMember(ms[1]) \o <<",">> \o RenderMembers(Tail(ms))

Render(doc) ==
    IF doc.t = "null" THEN <<"null">>
    ELSE <<"{">> \o RenderMembers(doc.o) \o <<"}">>

(* m[key].(string) on the map json.Unmarshal builds from a document:       *)
(* ok is false when the key is absent or its value is not a string         *)
LookupString(doc, key) ==
    LET hits == {i \in 1..Len(doc.o) : doc.o[i].k = key /\ doc.o[i].t = "str"}
    IN  IF doc.t # "obj" \/ hits = {}
        THEN [ok |-> FALSE, val |-> <<>>]
        ELSE [ok |-> TRUE, val |-> UnescapeString(doc.o[CHOOSE i \in hits : TRUE].s)]

(* the keys of the map[string]any json.Unmarshal builds from a document *)
Keys(doc) == {doc.o[i].k : i \in 1..Len(doc.o)}

----------------------------------------------------------------------------
(* main.go: reducing one plugin's answer to a Result *)

NoBlock == [found |-> FALSE, result |-> NoResult]

(* variant of checkBlockDecision that prints the reason without the newline *)
checkBlockDecisionNoNewline(data) ==
    LET decision == LookupString(data, "decision")
        reason == LookupString(data, "reason")
    IN  IF ~decision.ok \/ decision.val # <<"block">>
        THEN NoBlock
        ELSE [found |-> TRUE,
              result |-> [Code |-> ExitCodeBlockingError,
                          Error |-> reason.val,
                          Data |-> <<>>]]

(* checkBlockDecision(data): a Result when decision is "block", else nil *)
checkBlockDecision(data) ==
    LET decision == LookupString(data, "decision")
        reason == LookupString(data, "reason")
    IN  IF ~decision.ok \/ decision.val # <<"block">>
        THEN NoBlock
        ELSE [found |-> TRUE,
              result |-> [Code |-> ExitCodeBlockingError,
                          Error |-> reason.val \o <<"\n">>,
                          Data |-> <<>>]]

NoErr == [set |-> FALSE, msg |-> <<>>]
Err(msg) == [set |-> TRUE, msg |-> msg]

(* the result parameter is an interface value: it is nil only when it      *)
(* holds no type; a nil pointer of a concrete type is not a nil interface  *)
NilInterface == [typ |-> "none", p |-> NilPtr]
Iface(typ, p) == [typ |-> typ, p |-> p]

(* variant of processPluginResult that looks at the decision before err *)
processPluginResultBlockFirst(result, err) ==
    LET data == Marshal(result.typ, result.p)
        blockResult == checkBlockDecision(data)
    IN  IF result.typ # "none" /\ blockResult.found THEN blockResult.result
        ELSE IF err.set THEN NewError(err.msg)
        ELSE IF result.typ = "none" THEN NewSuccess(<<>>)
        ELSE NewSuccess(Render(data))

processPluginResult(result, err) ==
    IF err.set THEN NewError(err.msg)
    ELSE IF result.typ = "none" THEN NewSuccess(<<>>)
    ELSE LET data == Marshal(result.typ, result.p)
             blockResult == checkBlockDecision(data)
         IN  IF blockResult.found THEN blockResult.result
             ELSE NewSuccess(Render(data))

(* withDefault: a nil pointer is replaced by new(T) after T.Default() *)
withDefault(typ, p) ==
    IF ~p.nil THEN p
    ELSE PtrTo(CASE typ = "PreToolUseOutput"  -> PreToolUseDefault(ZeroVerdict)
                 [] typ = "PostToolUseOutput" -> PostToolUseDefault(ZeroVerdict)
                 [] typ = "StopOutput"        -> StopDefault(ZeroVerdict))

----------------------------------------------------------------------------
(* The event on standard input.  json: what json.Unmarshal into            *)
(* map[string]any makes of the bytes; tagKind/tagVal: the value under      *)
(* "hook_event_name"; body: the other fields as the typed decode of the    *)
(* handlers sees them; filePath: what ToolInput.GetFilePath returns, the   *)
(* empty text when tool_input has no string under "file_path".            *)

HookNames == {"PreToolUse", "PostToolUse", "Notification", "Stop", "SubagentStop"}

Inputs ==
    [json : {"readerr", "invalid", "null"}, tagKind : {"missing"}, tagVal : {""},
     body : {"missing"}, filePath : {<<>>}]
    \cup [json : {"object"}, tagKind : {"missing", "nonstring"}, tagVal : {""},
          body : {"ok"}, filePath : {<<>>}]
    \cup [json : {"object"}, tagKind : {"string"}, tagVal : HookNames \cup {"Other"},
          body : {"ok", "mistyped", "missing"}, filePath : {<<>>}]

NoInput == [json |-> "unread", tagKind |-> "missing", tagVal |-> "", body |-> "missing",
            filePath |-> <<>>]

(* readAndParseInput: the error it returns, if any *)
readAndParseInput(in) ==
    CASE in.json = "readerr" -> Err(<<"failed to read stdin: ", "ioerr">>)
      [] in.json = "invalid" -> Err(<<"invalid JSON input: ", "syntaxerr">>)
      [] OTHER -> NoErr

(* extractHookType: input["hook_event_name"].(string) *)
extractHookType(in) ==
    IF in.tagKind # "string"
    THEN [hookType |-> "", err |-> Err(<<"missing or invalid hook_event_name">>)]
    ELSE [hookType |-> in.tagVal, err |-> NoErr]

----------------------------------------------------------------------------
(* What a plugin method can do when called: return (pointer, error), or    *)
(* panic as the methods of UnimplementedPlugin do.                         *)

OutputType(hook) ==
    CASE hook = "PreToolUse"   -> "PreToolUseOutput"
      [] hook = "PostToolUse"  -> "PostToolUseOutput"
      [] hook = "Notification" -> "BaseHookOutput"
      [] hook = "Stop"         -> "StopOutput"
      [] hook = "SubagentStop" -> "DecisionOutput"

(* the three fields of BaseHookOutput, each of its values at least once *)
BaseChoices ==
    {[Continue |-> "nil", StopReason |-> <<>>, SuppressOutput |-> FALSE],
     [Continue |-> "true", StopReason |-> <<>>, SuppressOutput |-> TRUE],
     [Continue |-> "false", StopReason |-> <<"s">>, SuppressOutput |-> FALSE]}

Decisions == {NilStr, ptr(<<"approve">>), ptr(<<"block">>), ptr(<<"deny">>)}
Reasons == {NilStr} \cup {ptr(s) : s \in Strs}

(* the verdicts a plugin returns: every reason with the base fields unset,  *)
(* no reason or the reason "a" with the base fields set                    *)
Verdicts(typ) ==
    {v \in {[Continue |-> b.Continue, StopReason |-> b.StopReason,
             SuppressOutput |-> b.SuppressOutput, Decision |-> d, Reason |-> r] :
               b \in BaseChoices,
               d \in (IF typ \in DecisionTypes THEN Decisions ELSE {NilStr}),
               r \in (IF typ \in DecisionTypes THEN Reasons ELSE {NilStr})} :
        v.Continue = "nil" \/ v.Reason \in {NilStr, ptr(<<"a">>)}}

ErrTexts == {<<"e">>, <<"%", "d">>}

Return(p, err) == [kind |-> "return", p |-> p, err |-> err]
Panic == [kind |-> "panic", p |-> NilPtr, err |-> NoErr]
NoResp == [kind |-> "none", p |-> NilPtr, err |-> NoErr]

Responses(typ) ==
    {Return(p, NoErr) : p \in {NilPtr} \cup {PtrTo(v) : v \in Verdicts(typ)}}
    \cup {Return(p, Err(e)) :
            p \in {NilPtr} \cup
                  {PtrTo(v) : v \in {w \in Verdicts(typ) :
                                        w.Continue = "nil" /\ w.Reason = NilStr}},
            e \in ErrTexts}
    \cup {Panic}

----------------------------------------------------------------------------
(* main.go: the handlers.  in is the event, resp what the plugin method    *)
(* returns when the handler calls it.                                      *)

DecodeFails(in) == in.body = "mistyped"

handlePreToolUse(in, resp) ==
    IF DecodeFails(in) THEN NewError(<<"invalid PreToolUse input: ", "decodeerr">>)
    ELSE processPluginResult(
             Iface("PreToolUseOutput", withDefault("PreToolUseOutput", resp.p)), resp.err)

handlePostToolUse(in, resp) ==
    IF DecodeFails(in) THEN NewError(<<"invalid PostToolUse input: ", "decodeerr">>)
    ELSE processPluginResult(
             Iface("PostToolUseOutput", withDefault("PostToolUseOutput", resp.p)), resp.err)

handleNotification(in, resp) ==
    IF DecodeFails(in) THEN NewError(<<"invalid Notification input: ", "decodeerr">>)
    ELSE processPluginResult(Iface("BaseHookOutput", resp.p), resp.err)

handleStop(in, resp) ==
    IF DecodeFails(in) THEN NewError(<<"invalid Stop input: ", "decodeerr">>)
    ELSE processPluginResult(
             Iface("StopOutput", withDefault("StopOutput", resp.p)), resp.err)

handleSubagentStop(in, resp) ==
    IF DecodeFails(in) THEN NewError(<<"invalid SubagentStop input: ", "decodeerr">>)
    ELSE processPluginResult(Iface("DecisionOutput", resp.p), resp.err)

(* the keys of the hookHandlers map *)
hookHandlers == {"PreToolUse", "PostToolUse", "Notification", "Stop", "SubagentStop"}

(* variant of executePlugin that lets an unknown hook type pass *)
executePluginIgnoreUnknown(hook, in, resp) ==
    IF hook \notin hookHandlers THEN NewSuccess(<<>>)
    ELSE CASE hook = "PreToolUse"   -> handlePreToolUse(in, resp)
           [] hook = "PostToolUse"  -> handlePostToolUse(in, resp)
           [] hook = "Notification" -> handleNotification(in, resp)
           [] hook = "Stop"         -> handleStop(in, resp)
           [] hook = "SubagentStop" -> handleSubagentStop(in, resp)

executePlugin(hook, in, resp) ==
    IF hook \notin hookHandlers THEN NewError(<<"unknown hook type: ", hook>>)
    ELSE CASE hook = "PreToolUse"   -> handlePreToolUse(in, resp)
           [] hook = "PostToolUse"  -> handlePostToolUse(in, resp)
           [] hook = "Notification" -> handleNotification(in, resp)
           [] hook = "Stop"         -> handleStop(in, resp)
           [] hook = "SubagentStop" -> handleSubagentStop(in, resp)

(* executePlugin reaches the plugin's method *)
CallsPlugin(hook, in) == hook \in hookHandlers /\ ~DecodeFails(in)

----------------------------------------------------------------------------
(* The two plugins of the repository, env and gocheck.  A file path is a   *)
(* sequence of atoms: the dot "." or a word that holds no dot; the words   *)
(* are chosen so that a pattern matches a path exactly when it matches it  *)
(* atom by atom.                                                           *)

FilePaths ==
    {<<>>,
     <<".", "env">>, <<".", "ENV">>, <<"prod", ".", "env">>,
     <<".", "env", ".", "local">>,
     <<".", "env", ".", "example">>, <<".", "env", ".", "Sample">>,
     <<".", "env", ".", "local", ".", "example">>,
     <<".", "env", ".", "production", ".", "local">>,
     <<".", "envrc">>, <<"main", ".", "go">>, <<"notes", ".", "example">>}

(* the patterns are compiled with (?i) *)
ToLower(atom) ==
    CASE atom = "ENV" -> "env"
      [] atom = "Sample" -> "sample"
      [] OTHER -> atom

ExampleWords == {"example", "sample", "template", "dist"}

(* a match of \.env\. begins at atom i *)
DotEnvDotAt(p, i) ==
    /\ i + 2 <= Len(p)
    /\ p[i] = "." /\ ToLower(p[i + 1]) = "env" /\ p[i + 2] = "."

(* (?i)\.env\.(example|sample|template|dist)$ *)
exampleFilePattern1(p) ==
    /\ Len(p) >= 4
    /\ DotEnvDotAt(p, Len(p) - 3)
    /\ ToLower(p[Len(p)]) \in ExampleWords

(* (?i)\.env\..*\.(example|sample|template|dist)$ *)
exampleFilePattern2(p) ==
    \E i \in 1..Len(p) :
        /\ DotEnvDotAt(p, i)
        /\ Len(p) - 1 >= i + 3
        /\ p[Len(p) - 1] = "."
        /\ ToLower(p[Len(p)]) \in ExampleWords

(* (?i)\.env$ *)
envFilePattern1(p) ==
    /\ Len(p) >= 2
    /\ p[Len(p) - 1] = "." /\ ToLower(p[Len(p)]) = "env"

(* (?i)\.env\.[^.]+$ *)
envFilePattern2(p) ==
    \E i \in 1..Len(p) :
        /\ DotEnvDotAt(p, i)
        /\ i + 3 <= Len(p)
        /\ \A j \in (i + 3)..Len(p) : p[j] # "."

(* EnvPlugin.PreToolUse *)
EnvPreToolUse(filePath) ==
    LET isExampleFile == exampleFilePattern1(filePath) \/ exampleFilePattern2(filePath)
        isEnvFile == envFilePattern1(filePath) \/ envFilePattern2(filePath)
        msg == <<"Access to .env files is not allowed. File: ">> \o filePath
    IN  CASE filePath = <<>> -> Return(NilPtr, NoErr)
          [] filePath # <<>> /\ isExampleFile -> Return(NilPtr, NoErr)
          [] filePath # <<>> /\ ~isExampleFile /\ isEnvFile ->
               Return(PtrTo(Approve(ZeroVerdict, FALSE, <<msg>>)), NoErr)
          [] OTHER -> Return(NilPtr, NoErr)

(* PostToolUseOutput.Block(msg) *)
Block(o, msg) == [o EXCEPT !.Decision = ptr(<<"block">>), !.Reason = ptr(msg)]

(* execCommand("gopls", "check", filePath): the text gopls wrote, or the   *)
(* error of running it when it wrote nothing                               *)
execCommand(filePath) ==
    {[msg |-> <<>>, err |-> NoErr],
     [msg |-> <<"a">>, err |-> NoErr],
     [msg |-> <<>>,
      err |-> Err(<<"exec command gopls(check ">> \o filePath \o <<") failed, ", "e">>)]}

(* strings.HasSuffix(filePath, ".go") *)
HasSuffixGo(filePath) ==
    /\ Len(filePath) >= 2
    /\ filePath[Len(filePath) - 1] = "." /\ filePath[Len(filePath)] = "go"

(* gocheck's Plugin.PostToolUse *)
GoCheckPostToolUse(filePath) ==
    IF filePath = <<>> \/ ~HasSuffixGo(filePath)
    THEN {Return(NilPtr, NoErr)}
    ELSE {IF r.err.set THEN Return(NilPtr, r.err)
          ELSE IF Len(r.msg) > 0 THEN Return(PtrTo(Block(ZeroVerdict, r.msg)), NoErr)
          ELSE Return(NilPtr, NoErr) : r \in execCommand(filePath)}

(* GetMetadata of the two plugins: the matchers; the other plugins are    *)
(* arbitrary: two of them declare one matcher, one declares none           *)
GetMetadata(plugin) ==
    CASE plugin = EnvPath ->
           [PreToolUse |-> "Read|Write|Edit|MultiEdit", PostToolUse |-> ""]
      [] plugin = GoCheckPath ->
           [PreToolUse |-> "", PostToolUse |-> "Write|Edit|MultiEdit"]
      [] plugin = "x/a.so" -> [PreToolUse |-> "Write", PostToolUse |-> ""]
      [] plugin = "y/a.so" -> [PreToolUse |-> "Bash", PostToolUse |-> "Bash"]
      [] plugin = "x/b.so" -> [PreToolUse |-> "Write", PostToolUse |-> "Write"]
      [] plugin = "x/c.so" -> [PreToolUse |-> "", PostToolUse |-> ""]

(* what the method of plugin for the event kind hook can do on the event   *)
(* in: the two plugins of the repository embed UnimplementedPlugin and     *)
(* override one method each; the other plugins are arbitrary               *)
PluginResponses(plugin, hook, in) ==
    CASE plugin = EnvPath ->
           IF hook = "PreToolUse" THEN {EnvPreToolUse(in.filePath)} ELSE {Panic}
      [] plugin = GoCheckPath ->
           IF hook = "PostToolUse" THEN GoCheckPostToolUse(in.filePath) ELSE {Panic}
      [] OTHER -> Responses(OutputType(hook))

----------------------------------------------------------------------------
(* types/plugin.go: the PluginManager.  plugins maps a name to an          *)
(* instance, named here by the path it was created from.                   *)

NewPluginManager(pluginDir) ==
    [pluginDir |-> pluginDir, plugins |-> <<>>, pluginPaths |-> <<>>]

(* variant of MapSet that keeps the value of a key the map already has *)
MapSetKeepOld(m, k, v) == [n \in (DOMAIN m) \cup {k} |-> IF n \in DOMAIN m THEN m[n] ELSE v]

MapSet(m, k, v) == [n \in (DOMAIN m) \cup {k} |-> IF n = k THEN v ELSE m[n]]

(* variant of LoadPlugin that registers the instance before it calls       *)
(* Initialize                                                              *)
LoadPluginRegisterFirst(m, pluginPath, art) ==
    LET registered == [m EXCEPT
                         !.plugins = MapSet(m.plugins, Base(pluginPath), pluginPath),
                         !.pluginPaths = MapSet(m.pluginPaths, Base(pluginPath),
                                                Abs(pluginPath))]
    IN  CASE art = "initfail" ->
               [pm |-> registered,
                err |-> Err(<<"failed to initialize plugin ", pluginPath>>)]
          [] art = "ok" -> [pm |-> registered, err |-> NoErr]
          [] OTHER -> [pm |-> m, err |-> Err(<<"failed to load plugin ", pluginPath>>)]

(* LoadPlugin(pluginPath) on an artifact in state art *)
LoadPlugin(m, pluginPath, art) ==
    CASE art = "missing" ->
           [pm |-> m, err |-> Err(<<"plugin file does not exist: ", pluginPath>>)]
      [] art = "openfail" ->
           [pm |-> m, err |-> Err(<<"failed to open plugin ", pluginPath>>)]
      [] art = "nolookup" ->
           [pm |-> m, err |-> Err(<<"plugin ", pluginPath, " does not export New function">>)]
      [] art = "badsig" ->
           [pm |-> m, err |-> Err(<<"plugin ", pluginPath, " New function has wrong signature">>)]
      [] art = "nilinst" ->
           [pm |-> m, err |-> Err(<<"plugin ", pluginPath, " New function returned nil">>)]
      [] art = "initfail" ->
           [pm |-> m, err |-> Err(<<"failed to initialize plugin ", pluginPath>>)]
      [] art = "ok" ->
           [pm |-> [m EXCEPT
                      !.plugins = MapSet(m.plugins, Base(pluginPath), pluginPath),
                      !.pluginPaths = MapSet(m.pluginPaths, Base(pluginPath),
                                             Abs(pluginPath))],
            err |-> NoErr]

(* Plugins(): the instances in the order of one iteration over the map,    *)
(* which Go leaves unspecified                                             *)
Plugins(m) ==
    LET names == DOMAIN m.plugins
        n == Cardinality(names)
    IN  {[i \in 1..n |-> m.plugins[order[i]]] :
            order \in {f \in [1..n -> names] : \A i, j \in 1..n : f[i] = f[j] => i = j}}

MapDelete(m, k) == [n \in (DOMAIN m) \ {k} |-> m[n]]

(* strings.Join of texts *)
RECURSIVE Join(_, _)
Join(texts, sep) ==
    IF texts = <<>> THEN <<>>
    ELSE IF Len(texts) = 1 THEN texts[1]
    ELSE texts[1] \o <<sep>> \o Join(Tail(texts), sep)

(* what a method of the PluginManager did: the registry it leaves, the     *)
(* error it returns, the instances it called Cleanup on, in order, the     *)
(* paths it called LoadPlugin with, in order, and the ones that failed     *)
Did(m, err, cleaned, attempted, failed) ==
    [pm |-> m, err |-> err, cleaned |-> cleaned, attempted |-> attempted,
     failed |-> failed]

(* UnloadPlugin(pluginName); cleanupFails: Cleanup returns an error *)
UnloadPlugin(m, pluginName, cleanupFails) ==
    IF pluginName \notin DOMAIN m.plugins
    THEN Did(m, Err(<<"plugin ", pluginName, " not found">>), <<>>, <<>>, {})
    ELSE IF cleanupFails
    THEN Did(m, Err(<<"failed to cleanup plugin ", pluginName, ": ", "e">>),
             <<m.plugins[pluginName]>>, <<>>, {m.plugins[pluginName]})
    ELSE Did([m EXCEPT !.plugins = MapDelete(m.plugins, pluginName),
                       !.pluginPaths = MapDelete(m.pluginPaths, pluginName)],
             NoErr, <<m.plugins[pluginName]>>, <<>>, {})

(* the orders in which a range over the map plugins can visit its names *)
Orders(m) ==
    LET names == DOMAIN m.plugins
        n == Cardinality(names)
    IN  {f \in [1..n -> names] : \A i, j \in 1..n : f[i] = f[j] => i = j}

(* variant of ShutdownErrors that drops the errors of Cleanup *)
ShutdownErrorsDropped(order, failing) == <<>>

(* Shutdown: the errors collected by the loop that visits the names in     *)
(* order, Cleanup failing for the names of failing                         *)
ShutdownErrors(order, failing) ==
    LET failedNames == SelectSeq(order, LAMBDA name : name \in failing)
    IN  [i \in 1..Len(failedNames) |->
            <<"failed to cleanup plugin ", failedNames[i], ": ", "e">>]

(* variant of Shutdown that leaves the maps as they are *)
ShutdownKeepMaps(m, order, failing) ==
    LET errs == ShutdownErrors(order, failing)
    IN  Did(m,
            IF Len(errs) > 0 THEN Err(<<"shutdown errors: ">> \o Join(errs, "; "))
                             ELSE NoErr,
            [i \in 1..Len(order) |-> m.plugins[order[i]]], <<>>,
            {m.plugins[name] : name \in failing})

(* Shutdown() *)
Shutdown(m, order, failing) ==
    LET errs == ShutdownErrors(order, failing)
    IN  Did([m EXCEPT !.plugins = <<>>, !.pluginPaths = <<>>],
            IF Len(errs) > 0 THEN Err(<<"shutdown errors: ">> \o Join(errs, "; "))
                             ELSE NoErr,
            [i \in 1..Len(order) |-> m.plugins[order[i]]], <<>>,
            {m.plugins[name] : name \in failing})

(* variant of LoadEach that returns at the first failure *)
RECURSIVE LoadEachStopAtFailure(_, _, _)
LoadEachStopAtFailure(m, files, arts) ==
    IF files = <<>>
    THEN [pm |-> m, loadErrors |-> <<>>, attempted |-> <<>>, failed |-> {}]
    ELSE LET r == LoadPlugin(m, Head(files), arts[Head(files)])
             rest == IF r.err.set
                     THEN [pm |-> r.pm, loadErrors |-> <<>>, attempted |-> <<>>,
                           failed |-> {}]
                     ELSE LoadEachStopAtFailure(r.pm, Tail(files), arts)
         IN  [pm |-> rest.pm,
              loadErrors |-> (IF r.err.set THEN <<r.err.msg>> ELSE <<>>) \o rest.loadErrors,
              attempted |-> <<Head(files)>> \o rest.attempted,
              failed |-> (IF r.err.set THEN {Head(files)} ELSE {}) \cup rest.failed]

(* LoadAllPlugins: the loop over pluginFiles *)
RECURSIVE LoadEach(_, _, _)
LoadEach(m, files, arts) ==
    IF files = <<>>
    THEN [pm |-> m, loadErrors |-> <<>>, attempted |-> <<>>, failed |-> {}]
    ELSE LET r == LoadPlugin(m, Head(files), arts[Head(files)])
             rest == LoadEach(r.pm, Tail(files), arts)
         IN  [pm |-> rest.pm,
              loadErrors |-> (IF r.err.set THEN <<r.err.msg>> ELSE <<>>) \o rest.loadErrors,
              attempted |-> <<Head(files)>> \o rest.attempted,
              failed |-> (IF r.err.set THEN {Head(files)} ELSE {}) \cup rest.failed]

(* the plugin directories; DirFiles: the *.so entries a directory can      *)
(* hold, in the order filepath.Glob returns them                           *)
PluginDirs == {"", "x"}

DirFiles(dir) ==
    CASE dir = "x" -> <<"x/a.so", "x/b.so">>
      [] OTHER -> <<>>

(* variant of LoadAllPlugins that returns at the first failure *)
LoadAllPluginsStopAtFailure(m, dir, files, arts) ==
    LET r == LoadEachStopAtFailure(m, files, arts)
    IN  Did(r.pm,
            IF Len(r.loadErrors) > 0
            THEN Err(<<"failed to load some plugins: ">> \o Join(r.loadErrors, "; "))
            ELSE NoErr,
            <<>>, r.attempted, r.failed)

(* what os.Stat and filepath.Glob make of the plugin directory *)
DirStates == {"missing", "scanfail", "listed"}

(* LoadAllPlugins(); dir: the state of the directory; files: the result of *)
(* filepath.Glob(pluginDir/*.so); arts: the state of each of these files   *)
LoadAllPlugins(m, dir, files, arts) ==
    IF m.pluginDir = ""
    THEN Did(m, Err(<<"plugin directory not set">>), <<>>, <<>>, {})
    ELSE IF dir = "missing"
    THEN Did(m, Err(<<"plugin directory does not exist: ", m.pluginDir>>), <<>>, <<>>, {})
    ELSE IF dir = "scanfail"
    THEN Did(m, Err(<<"failed to scan plugin directory: ", "syntax error in pattern">>),
             <<>>, <<>>, {})
    ELSE LET r == LoadEach(m, files, arts)
         IN  Did(r.pm,
                 IF Len(r.loadErrors) > 0
                 THEN Err(<<"failed to load some plugins: ">> \o Join(r.loadErrors, "; "))
                 ELSE NoErr,
                 <<>>, r.attempted, r.failed)

----------------------------------------------------------------------------
(* The run of the process *)

Running == 0 - 1

NoLast == [nil |-> TRUE, r |-> NoResult]
NoOutcome == [set |-> FALSE, r |-> NoResult]

(* the goroutines that call the PluginManager concurrently *)
Goroutines == 1..MaxGoroutines

(* a fresh sync.RWMutex: w is the goroutine holding Lock, 0 if none; r the *)
(* goroutines holding RLock                                                *)
Unlocked == [w |-> 0, r |-> {}]

(* a goroutine that is in no call *)
Idle == [op |-> "none", at |-> "idle", path |-> "", art |-> "ok", name |-> "",
         cleanupFails |-> FALSE]
NoCalls == [g \in Goroutines |-> Idle]

(* no settings file: loadSettings then starts from empty lists *)
NoSettings == [state |-> "missing", PreToolUse |-> <<>>, PostToolUse |-> <<>>]

(* no PluginManager method has been called *)
NoOp ==
    [op |-> "none", arg |-> "", dir |-> "listed", files |-> <<>>, arts |-> <<>>,
     err |-> NoErr, cleaned |-> <<>>, failed |-> {}, attempted |-> <<>>, old |-> "",
     count |-> 0, afterShutdown |-> FALSE]

(* the state in which run starts, the command line naming plugins of args *)
InitRun(args) ==
    /\ goOmitZero \in BOOLEAN
    /\ pluginPaths \in SeqsUpTo(args, MaxPlugins)
    /\ pm = NewPluginManager("")
    /\ lastOp = NoOp
    /\ cleanups = {}
    /\ mu = Unlocked
    /\ calls = NoCalls
    /\ settings = NoSettings
    /\ pc = "load"
    /\ stdinRead = FALSE
    /\ input = NoInput
    /\ hookType = ""
    /\ plugins = <<>>
    /\ idx = 0
    /\ lastResult = NoLast
    /\ invoked = <<>>
    /\ lastResp = NoResp
    /\ codes = <<>>
    /\ outcome = NoOutcome
    /\ exitCode = Running
    /\ stdout = <<>>
    /\ stderr = <<>>

Init == InitRun(Paths)

(* main: run returned err *)
MainError(err) ==
    /\ pc' = "done"
    /\ outcome' = outcome
    /\ stderr' = stderr \o <<"error: ">> \o err.msg \o <<"\n">>
    /\ stdout' = stdout \o <<"<help>">>
    /\ exitCode' = ExitCodeError

(* the process ends in r.ExitWithMessage(); the frame of                   *)
(* handleExecuteCommand, and lastResult with it, is gone                   *)
Exit(r) ==
    LET e == ExitWithMessage(r)
    IN  /\ pc' = "done"
        /\ lastResult' = NoLast
        /\ outcome' = [set |-> TRUE, r |-> r]
        /\ stdout' = stdout \o e.out
        /\ stderr' = stderr \o e.err
        /\ exitCode' = e.code

(* loadPlugins: one iteration that loads a plugin *)
LoadPluginOk ==
    /\ pc = "load"
    /\ pluginPaths # <<>>
    /\ \E art \in ArtifactStates :
          LET r == LoadPlugin(pm, Head(pluginPaths), art)
          IN  /\ ~r.err.set
              /\ pm' = r.pm
    /\ pluginPaths' = Tail(pluginPaths)
    /\ UNCHANGED pmVars
    /\ UNCHANGED <<goOmitZero, pc, stdinRead, input, hookType, plugins, idx, lastResult,
                   invoked, lastResp, codes, outcome, exitCode, stdout, stderr>>

(* loadPlugins: LoadPlugin fails, run returns the error to main *)
LoadPluginFail ==
    /\ pc = "load"
    /\ pluginPaths # <<>>
    /\ \E art \in ArtifactStates :
          LET r == LoadPlugin(pm, Head(pluginPaths), art)
          IN  /\ r.err.set
              /\ pm' = r.pm
              /\ MainError(Err(<<"failed to load plugin ", Head(pluginPaths), ": ">>
                               \o r.err.msg))
    /\ UNCHANGED pmVars
    /\ UNCHANGED <<goOmitZero, pluginPaths, stdinRead, input, hookType, plugins, idx,
                   lastResult, invoked, lastResp, codes>>

(* variant of ExecuteNoPlugins that reads the input before it looks at the *)
(* plugins                                                                 *)
ExecuteNoPluginsReadFirst ==
    /\ pc = "load"
    /\ pluginPaths = <<>>
    /\ plugins' \in Plugins(pm)
    /\ Len(plugins') = 0
    /\ \E in \in Inputs : input' = in
    /\ stdinRead' = TRUE
    /\ MainError(Err(<<"no plugins loaded">>))
    /\ UNCHANGED pmVars
    /\ UNCHANGED <<goOmitZero, pluginPaths, pm, hookType, idx, lastResult, invoked,
                   lastResp, codes>>

(* handleExecuteCommand: no plugin is loaded *)
ExecuteNoPlugins ==
    /\ pc = "load"
    /\ pluginPaths = <<>>
    /\ plugins' \in Plugins(pm)
    /\ Len(plugins') = 0
    /\ MainError(Err(<<"no plugins loaded">>))
    /\ UNCHANGED pmVars
    /\ UNCHANGED <<goOmitZero, pluginPaths, pm, stdinRead, input, hookType, idx,
                   lastResult, invoked, lastResp, codes>>

(* handleExecuteCommand: the input cannot be read or parsed, or it has no  *)
(* string under hook_event_name                                            *)
ExecuteBadInput ==
    /\ pc = "load"
    /\ pluginPaths = <<>>
    /\ plugins' \in Plugins(pm)
    /\ Len(plugins') # 0
    /\ \E in \in Inputs :
          LET perr == readAndParseInput(in)
              h == extractHookType(in)
          IN  /\ perr.set \/ h.err.set
              /\ input' = in
              /\ MainError(IF perr.set THEN perr ELSE h.err)
    /\ stdinRead' = TRUE
    /\ UNCHANGED pmVars
    /\ UNCHANGED <<goOmitZero, pluginPaths, pm, hookType, idx, lastResult, invoked,
                   lastResp, codes>>

(* handleExecuteCommand up to the dispatch loop *)
ExecuteBegin ==
    /\ pc = "load"
    /\ pluginPaths = <<>>
    /\ plugins' \in Plugins(pm)
    /\ Len(plugins') # 0
    /\ \E in \in Inputs :
          LET perr == readAndParseInput(in)
              h == extractHookType(in)
          IN  /\ ~perr.set /\ ~h.err.set
              /\ input' = in
              /\ hookType' = h.hookType
    /\ stdinRead' = TRUE
    /\ pc' = "dispatch"
    /\ UNCHANGED pmVars
    /\ UNCHANGED <<goOmitZero, pluginPaths, pm, idx, lastResult, invoked, lastResp,
                   codes, outcome, exitCode, stdout, stderr>>

(* variant of DispatchStep that keeps the first result as lastResult *)
DispatchStepKeepFirst ==
    /\ pc = "dispatch"
    /\ idx < Len(plugins)
    /\ LET plugin == plugins[idx + 1]
           called == CallsPlugin(hookType, input)
       IN  \E resp \in (IF called THEN PluginResponses(plugin, hookType, input) \ {Panic}
                                  ELSE {NoResp}) :
              LET result == executePlugin(hookType, input, resp)
              IN  /\ invoked' = IF called
                                THEN Append(invoked, [plugin |-> plugin, method |-> hookType])
                                ELSE invoked
                  /\ lastResp' = IF called THEN resp ELSE lastResp
                  /\ codes' = Append(codes, result.Code)
                  /\ IF ~IsSuccess(result)
                     THEN /\ Exit(result)
                          /\ UNCHANGED idx
                     ELSE /\ lastResult' = IF lastResult.nil THEN [nil |-> FALSE, r |-> result]
                                                            ELSE lastResult
                          /\ idx' = idx + 1
                          /\ UNCHANGED <<pc, outcome, exitCode, stdout, stderr>>
    /\ UNCHANGED pmVars
    /\ UNCHANGED <<goOmitZero, pluginPaths, pm, stdinRead, input, hookType, plugins>>

(* one iteration of the dispatch loop in which the plugin method returns *)
DispatchStep ==
    /\ pc = "dispatch"
    /\ idx < Len(plugins)
    /\ LET plugin == plugins[idx + 1]
           called == CallsPlugin(hookType, input)
       IN  \E resp \in (IF called THEN PluginResponses(plugin, hookType, input) \ {Panic}
                                  ELSE {NoResp}) :
              LET result == executePlugin(hookType, input, resp)
              IN  /\ invoked' = IF called
                                THEN Append(invoked, [plugin |-> plugin, method |-> hookType])
                                ELSE invoked
                  /\ lastResp' = IF called THEN resp ELSE lastResp
                  /\ codes' = Append(codes, result.Code)
                  /\ IF ~IsSuccess(result)
                     THEN /\ Exit(result)
                          /\ UNCHANGED idx
                     ELSE /\ lastResult' = [nil |-> FALSE, r |-> result]
                          /\ idx' = idx + 1
                          /\ UNCHANGED <<pc, outcome, exitCode, stdout, stderr>>
    /\ UNCHANGED pmVars
    /\ UNCHANGED <<goOmitZero, pluginPaths, pm, stdinRead, input, hookType, plugins>>

(* one iteration of the dispatch loop in which the plugin method panics:   *)
(* the Go runtime prints the panic and the process exits                   *)
DispatchPanic ==
    /\ pc = "dispatch"
    /\ idx < Len(plugins)
    /\ CallsPlugin(hookType, input)
    /\ Panic \in PluginResponses(plugins[idx + 1], hookType, input)
    /\ invoked' = Append(invoked, [plugin |-> plugins[idx + 1], method |-> hookType])
    /\ lastResp' = Panic
    /\ pc' = "done"
    /\ stderr' = stderr \o <<"panic: ", "implement me", "\n">>
    /\ exitCode' = GoPanicExit
    /\ UNCHANGED pmVars
    /\ UNCHANGED <<goOmitZero, pluginPaths, pm, stdinRead, input, hookType, plugins,
                   idx, lastResult, codes, outcome, stdout>>

(* the loop is over: lastResult.ExitWithMessage() *)
DispatchFinish ==
    /\ pc = "dispatch"
    /\ idx = Len(plugins)
    /\ IF lastResult.nil
       THEN /\ pc' = "done"
            /\ exitCode' = ExitCodeSuccess
            /\ UNCHANGED <<stdout, stderr, lastResult, outcome>>
       ELSE Exit(lastResult.r)
    /\ UNCHANGED pmVars
    /\ UNCHANGED <<goOmitZero, pluginPaths, pm, stdinRead, input, hookType, plugins,
                   idx, invoked, lastResp, codes>>

Next ==
    \/ LoadPluginOk
    \/ LoadPluginFail
    \/ ExecuteNoPlugins
    \/ ExecuteBadInput
    \/ ExecuteBegin
    \/ DispatchStep
    \/ DispatchPanic
    \/ DispatchFinish

Spec == Init /\ [][Next]_vars

----------------------------------------------------------------------------
(* The run of the process with the plugins of the repository.  The events  *)
(* carry a file path in tool_input.                                        *)

SampleInputs ==
    [json : {"object"}, tagKind : {"string"}, tagVal : HookNames, body : {"ok"},
     filePath : FilePaths]

InitSamples == InitRun(SamplePaths)

(* handleExecuteCommand up to the dispatch loop, on an event with a file   *)
(* path                                                                    *)
SampleExecuteBegin ==
    /\ pc = "load"
    /\ pluginPaths = <<>>
    /\ plugins' \in Plugins(pm)
    /\ Len(plugins') # 0
    /\ \E in \in SampleInputs :
          LET perr == readAndParseInput(in)
              h == extractHookType(in)
          IN  /\ ~perr.set /\ ~h.err.set
              /\ input' = in
              /\ hookType' = h.hookType
    /\ stdinRead' = TRUE
    /\ pc' = "dispatch"
    /\ UNCHANGED pmVars
    /\ UNCHANGED <<goOmitZero, pluginPaths, pm, idx, lastResult, invoked, lastResp,
                   codes, outcome, exitCode, stdout, stderr>>

NextSamples ==
    \/ LoadPluginOk
    \/ LoadPluginFail
    \/ ExecuteNoPlugins
    \/ ExecuteBadInput
    \/ SampleExecuteBegin
    \/ DispatchStep
    \/ DispatchPanic
    \/ DispatchFinish

SpecSamples == InitSamples /\ [][NextSamples]_vars

----------------------------------------------------------------------------
(* The runs of one command line: claude-plugin x/a.so x/b.so execute.      *)

CmdLine == <<"x/a.so", "x/b.so">>

InitCmdLine == InitRun(Elems(CmdLine)) /\ pluginPaths = CmdLine

NextCmdLine ==
    \/ LoadPluginOk
    \/ LoadPluginFail
    \/ ExecuteBadInput
    \/ ExecuteBegin
    \/ DispatchStep
    \/ DispatchPanic
    \/ DispatchFinish

SpecCmdLine == InitCmdLine /\ [][NextCmdLine]_vars

----------------------------------------------------------------------------
(* A plugin method building its verdict: it starts from a verdict of the   *)
(* event's output type, calls at most one of the builders of types.go on   *)
(* it and returns it, and the core encodes what it returned.               *)

InitTypes ==
    /\ goOmitZero \in BOOLEAN
    /\ pluginPaths = <<>>
    /\ pm = NewPluginManager("")
    /\ lastOp = NoOp
    /\ cleanups = {}
    /\ mu = Unlocked
    /\ calls = NoCalls
    /\ settings = NoSettings
    /\ pc = "new"
    /\ stdinRead = FALSE
    /\ input = NoInput
    /\ hookType \in HookNames
    /\ plugins = <<>>
    /\ idx = 0
    /\ lastResult = NoLast
    /\ invoked = <<>>
    /\ lastResp \in {Return(PtrTo(v), NoErr) : v \in Verdicts(OutputType(hookType))}
    /\ codes = <<>>
    /\ outcome = NoOutcome
    /\ exitCode = Running
    /\ stdout = <<>>
    /\ stderr = <<>>

(* the builder op(arg) turned the verdict into v; old: its Continue before *)
Built(op, arg, v) ==
    /\ pc = "new"
    /\ pc' = "built"
    /\ lastResp' = Return(PtrTo(v), NoErr)
    /\ lastOp' = [NoOp EXCEPT !.op = op, !.arg = arg, !.old = lastResp.p.v.Continue]
    /\ UNCHANGED <<goOmitZero, pluginPaths, pm, cleanups, mu, calls, settings,
                   stdinRead, input, hookType, plugins, idx, lastResult, invoked, codes,
                   outcome, exitCode, stdout, stderr>>

TypesStop ==
    \E userMessage \in Strs :
        Built("Stop", userMessage, Stop(lastResp.p.v, userMessage))

TypesApprove ==
    /\ hookType = "PreToolUse"
    /\ \E approved \in BOOLEAN, msg \in {<<>>} \cup {<<s>> : s \in Strs} :
          Built("Approve", msg, Approve(lastResp.p.v, approved, msg))

TypesBlock ==
    /\ hookType = "PostToolUse"
    /\ \E msg \in Strs : Built("Block", msg, Block(lastResp.p.v, msg))

TypesNotAllowed ==
    /\ hookType = "Stop"
    /\ \E msg \in Strs : Built("NotAllowed", msg, NotAllowed(lastResp.p.v, msg))

(* json.Marshal(result) of processPluginResult and string(data) *)
TypesMarshal ==
    /\ pc \in {"new", "built"}
    /\ pc' = "encoded"
    /\ stdout' = Render(Marshal(OutputType(hookType), lastResp.p))
    /\ UNCHANGED <<goOmitZero, pluginPaths, pm, lastOp, cleanups, mu, calls,
                   settings, stdinRead, input, hookType, plugins, idx, lastResult, invoked,
                   lastResp, codes, outcome, exitCode, stderr>>

NextTypes ==
    \/ TypesStop
    \/ TypesApprove
    \/ TypesBlock
    \/ TypesNotAllowed
    \/ TypesMarshal

SpecTypes == InitTypes /\ [][NextTypes]_vars

----------------------------------------------------------------------------
(* A client of the PluginManager that calls its methods one at a time, in  *)
(* any order, on a manager created for any of the plugin directories.      *)

(* the artifacts the client loads: two of them derive the same name *)
ClientPaths == {"x/a.so", "y/a.so", "x/b.so"}

Names == {Base(path) : path \in ClientPaths}

InitPM ==
    /\ goOmitZero = TRUE
    /\ pluginPaths = <<>>
    /\ pm \in {NewPluginManager(dir) : dir \in PluginDirs}
    /\ lastOp = NoOp
    /\ cleanups = {}
    /\ mu = Unlocked
    /\ calls = NoCalls
    /\ settings = NoSettings
    /\ pc = "client"
    /\ stdinRead = FALSE
    /\ input = NoInput
    /\ hookType = ""
    /\ plugins = <<>>
    /\ idx = 0
    /\ lastResult = NoLast
    /\ invoked = <<>>
    /\ lastResp = NoResp
    /\ codes = <<>>
    /\ outcome = NoOutcome
    /\ exitCode = Running
    /\ stdout = <<>>
    /\ stderr = <<>>

(* the environment of a call: the state of the plugin directory, the files *)
(* a listing or the caller names, and the state of each                    *)
Env(dir, files, arts) == [dir |-> dir, files |-> files, arts |-> arts]

NoEnv == Env("listed", <<>>, <<>>)

(* the call op(arg) in the environment env did d; old: the instance that   *)
(* was registered under the name the call is about, "" if none; count: the *)
(* number of entries registered when it was made; afterShutdown: the call  *)
(* before it was Shutdown                                                  *)
Record(op, arg, env, d) ==
    LET name == IF op = "LoadPlugin" THEN Base(arg) ELSE arg
    IN  /\ pm' = d.pm
        /\ lastOp' = [op |-> op, arg |-> arg, dir |-> env.dir,
                      files |-> env.files, arts |-> env.arts, err |-> d.err,
                      cleaned |-> d.cleaned, failed |-> d.failed,
                      attempted |-> d.attempted,
                      old |-> IF name \in DOMAIN pm.plugins THEN pm.plugins[name] ELSE "",
                      count |-> Cardinality(DOMAIN pm.plugins),
                      afterShutdown |-> lastOp.op = "Shutdown"]
        /\ cleanups' = cleanups \cup {d.cleaned[i] : i \in 1..Len(d.cleaned)}
        /\ UNCHANGED <<runVars, mu, calls, settings>>

PMLoadPlugin ==
    \E pluginPath \in ClientPaths, art \in ArtifactStates :
        LET r == LoadPlugin(pm, pluginPath, art)
        IN  Record("LoadPlugin", pluginPath,
                   Env("listed", <<pluginPath>>, [f \in {pluginPath} |-> art]),
                   Did(r.pm, r.err, <<>>, <<pluginPath>>,
                       IF r.err.set THEN {pluginPath} ELSE {}))

PMUnloadPlugin ==
    \E pluginName \in Names, cleanupFails \in BOOLEAN :
        Record("UnloadPlugin", pluginName, NoEnv,
               UnloadPlugin(pm, pluginName, cleanupFails))

PMShutdown ==
    \E order \in Orders(pm), failing \in SUBSET (DOMAIN pm.plugins) :
        Record("Shutdown", "", NoEnv, Shutdown(pm, order, failing))

PMLoadAllPlugins ==
    \E dir \in DirStates, present \in SUBSET ClientPaths :
        LET files == SelectSeq(DirFiles(pm.pluginDir), LAMBDA f : f \in present)
        IN  /\ present = {files[i] : i \in 1..Len(files)}
            /\ dir # "listed" => present = {}
            /\ \E arts \in [present -> ArtifactStates] :
                  Record("LoadAllPlugins", pm.pluginDir, Env(dir, files, arts),
                         LoadAllPlugins(pm, dir, files, arts))

NextPM ==
    \/ PMLoadPlugin
    \/ PMUnloadPlugin
    \/ PMShutdown
    \/ PMLoadAllPlugins

SpecPM == InitPM /\ [][NextPM]_vars

----------------------------------------------------------------------------
(* Goroutines calling one PluginManager concurrently.  A call enters its   *)
(* method, taking the lock the method takes, moves through the map         *)
(* accesses and the extension methods of its body, and returns, releasing  *)
(* the lock (the deferred Unlock or RUnlock) and leaving its effect.       *)
(* executePlugin of main.go takes pm.Plugins() and calls the event method. *)

Methods ==
    {"LoadPlugin", "UnloadPlugin", "Shutdown", "GetPlugin", "ListPlugins",
     "executePlugin"}

(* what the method does with pm.mu on entry; Plugins() does nothing *)
LockOf(op) ==
    CASE op \in {"LoadPlugin", "UnloadPlugin", "Shutdown"} -> "Lock"
      [] op \in {"GetPlugin", "ListPlugins"}               -> "RLock"
      [] op = "executePlugin"                              -> "none"

(* the extension methods a call can be in *)
ExtensionMethods == {"Initialize", "Cleanup", "GetMetadata", "event"}

(* where the call c goes from where it is, the registry being m: "read"   *)
(* and "write" are accesses to the maps, "return" the end of the method    *)
NextAt(c, m) ==
    CASE c.op = "LoadPlugin" ->
           (CASE c.at = "entered" ->
                   IF c.art \in {"ok", "initfail"} THEN "Initialize" ELSE "return"
              [] c.at = "Initialize" -> IF c.art = "ok" THEN "write" ELSE "return"
              [] c.at = "write" -> "return")
      [] c.op = "UnloadPlugin" ->
           (CASE c.at = "entered" -> "read"
              [] c.at = "read" ->
                   IF c.name \in DOMAIN m.plugins THEN "Cleanup" ELSE "return"
              [] c.at = "Cleanup" -> IF c.cleanupFails THEN "return" ELSE "write"
              [] c.at = "write" -> "return")
      [] c.op = "Shutdown" ->
           (CASE c.at = "entered" -> "read"
              [] c.at = "read" -> IF DOMAIN m.plugins = {} THEN "write" ELSE "Cleanup"
              [] c.at = "Cleanup" -> "write"
              [] c.at = "write" -> "return")
      [] c.op = "GetPlugin" ->
           (CASE c.at = "entered" -> "read"
              [] c.at = "read" -> "return")
      [] c.op = "ListPlugins" ->
           (CASE c.at = "entered" -> "read"
              [] c.at = "read" ->
                   IF DOMAIN m.plugins = {} THEN "return" ELSE "GetMetadata"
              [] c.at = "GetMetadata" -> "return")
      [] c.op = "executePlugin" ->
           (CASE c.at = "entered" -> "read"
              [] c.at = "read" -> IF DOMAIN m.plugins = {} THEN "return" ELSE "event"
              [] c.at = "event" -> "return")

(* mu.Lock() and mu.RLock() return when the lock can be taken *)
CanTake(g, kind) ==
    CASE kind = "Lock"  -> mu.w = 0 /\ mu.r = {}
      [] kind = "RLock" -> mu.w = 0
      [] kind = "none"  -> TRUE

Take(g, kind) ==
    CASE kind = "Lock"  -> [mu EXCEPT !.w = g]
      [] kind = "RLock" -> [mu EXCEPT !.r = @ \cup {g}]
      [] kind = "none"  -> mu

(* mu.Unlock() and mu.RUnlock() *)
Release(g, kind) ==
    CASE kind = "Lock"  -> [mu EXCEPT !.w = 0]
      [] kind = "RLock" -> [mu EXCEPT !.r = @ \ {g}]
      [] kind = "none"  -> mu

LockPaths == {"x/a.so", "x/b.so"}

InitLock ==
    /\ goOmitZero = TRUE
    /\ pluginPaths = <<>>
    /\ pm = NewPluginManager("")
    /\ lastOp = NoOp
    /\ cleanups = {}
    /\ mu = Unlocked
    /\ calls = NoCalls
    /\ settings = NoSettings
    /\ pc = "concurrent"
    /\ stdinRead = FALSE
    /\ input = NoInput
    /\ hookType = ""
    /\ plugins = <<>>
    /\ idx = 0
    /\ lastResult = NoLast
    /\ invoked = <<>>
    /\ lastResp = NoResp
    /\ codes = <<>>
    /\ outcome = NoOutcome
    /\ exitCode = Running
    /\ stdout = <<>>
    /\ stderr = <<>>

(* goroutine g calls a method and gets past its first line *)
GoCall(g) ==
    /\ calls[g].at = "idle"
    /\ \E op \in Methods, path \in LockPaths \cup {""}, art \in ArtifactStates,
          name \in {Base(f) : f \in LockPaths} \cup {""}, cleanupFails \in BOOLEAN :
          /\ (path # "") = (op = "LoadPlugin")
          /\ art # "ok" => op = "LoadPlugin"
          /\ (name # "") = (op \in {"UnloadPlugin", "GetPlugin"})
          /\ cleanupFails => op = "UnloadPlugin"
          /\ CanTake(g, LockOf(op))
          /\ mu' = Take(g, LockOf(op))
          /\ calls' = [calls EXCEPT ![g] =
                          [op |-> op, at |-> "entered", path |-> path, art |-> art,
                           name |-> name, cleanupFails |-> cleanupFails]]
    /\ UNCHANGED <<runVars, pm, lastOp, cleanups, settings>>

(* goroutine g moves on inside its method *)
GoStep(g) ==
    /\ calls[g].at # "idle"
    /\ NextAt(calls[g], pm) # "return"
    /\ calls' = [calls EXCEPT ![g].at = NextAt(calls[g], pm)]
    /\ UNCHANGED <<runVars, pm, lastOp, cleanups, mu, settings>>

(* goroutine g returns from its method *)
GoReturn(g) ==
    LET c == calls[g]
    IN  /\ c.at # "idle"
        /\ NextAt(c, pm) = "return"
        /\ \E order \in Orders(pm), failing \in SUBSET (DOMAIN pm.plugins) :
              LET d == CASE c.op = "LoadPlugin" ->
                              LET r == LoadPlugin(pm, c.path, c.art)
                              IN  Did(r.pm, r.err, <<>>, <<>>, {})
                         [] c.op = "UnloadPlugin" ->
                              UnloadPlugin(pm, c.name, c.cleanupFails)
                         [] c.op = "Shutdown" -> Shutdown(pm, order, failing)
                         [] OTHER -> Did(pm, NoErr, <<>>, <<>>, {})
              IN  /\ c.op # "Shutdown" => (order = CHOOSE o \in Orders(pm) : TRUE)
                                             /\ failing = {}
                  /\ pm' = d.pm
                  /\ cleanups' = cleanups \cup Elems(d.cleaned)
        /\ mu' = Release(g, LockOf(c.op))
        /\ calls' = [calls EXCEPT ![g] = Idle]
        /\ UNCHANGED <<runVars, lastOp, settings>>

NextLock ==
    \/ \E g \in Goroutines : GoCall(g)
    \/ \E g \in Goroutines : GoStep(g)
    \/ \E g \in Goroutines : GoReturn(g)

SpecLock == InitLock /\ [][NextLock]_vars

----------------------------------------------------------------------------
(* main.go: claude-plugin <paths> configure.  settings is the file         *)
(* ./.claude/settings.local.json: missing, unparsable or holding the two   *)
(* lists of hook configs; every run of the command loads the plugins of    *)
(* the command line into a new PluginManager.                              *)

(* all orders of the elements of a set, as a range over a Go map yields   *)
Perms(S) ==
    LET n == Cardinality(S)
    IN  {f \in [1..n -> S] : \A i, j \in 1..n : f[i] = f[j] => i = j}

(* strings.TrimSuffix(pluginName, ".so") *)
TrimSuffixSo(pluginName) ==
    CASE pluginName = "a.so" -> "a"
      [] pluginName = "b.so" -> "b"
      [] pluginName = "c.so" -> "c"
      [] pluginName = "env.so" -> "env"
      [] pluginName = "gocheck.so" -> "gocheck"

(* the hook entries updateHookConfigs builds from the names of a matcher *)
HookEntries(pluginNames) ==
    [i \in 1..Len(pluginNames) |->
        [Type |-> "command",
         Command |-> <<"claude-plugin ", TrimSuffixSo(pluginNames[i]), " execute">>]]

(* updateHookConfigs(existing, newPlugins); rangeOrder: the order in which *)
(* the range over newPlugins visits its matchers                           *)
updateHookConfigs(existing, newPlugins, rangeOrder) ==
    LET updated ==
            [i \in 1..Len(existing) |->
                IF existing[i].Matcher \in DOMAIN newPlugins
                THEN [existing[i] EXCEPT
                        !.Hooks = HookEntries(newPlugins[existing[i].Matcher])]
                ELSE existing[i]]
        processedMatchers ==
            {existing[i].Matcher : i \in 1..Len(existing)} \cap DOMAIN newPlugins
        fresh == SelectSeq(rangeOrder, LAMBDA matcher : matcher \notin processedMatchers)
    IN  updated \o [i \in 1..Len(fresh) |->
                      [Matcher |-> fresh[i], Hooks |-> HookEntries(newPlugins[fresh[i]])]]

(* preToolUsePlugins and postToolUsePlugins of updateSettingsFile: matcher *)
(* -> plugin names, in the order infos in which ListPlugins returned them  *)
MatcherPlugins(m, infos, kind) ==
    LET matcherOf(name) == GetMetadata(m.plugins[name])[kind]
        declared == {matcherOf(infos[i]) : i \in 1..Len(infos)} \ {""}
    IN  [matcher \in declared |->
            SelectSeq(infos, LAMBDA name : matcherOf(name) = matcher)]

(* loadSettings: empty lists when the file does not exist *)
loadSettings(file) ==
    IF file.state = "unparsable"
    THEN [err |-> Err(<<"failed to parse settings file">>), settings |-> file]
    ELSE [err |-> NoErr, settings |-> file]

(* updateSettingsFile(pm): the file it saves *)
updateSettingsFile(m, file, infos, rangePre, rangePost) ==
    LET loaded == loadSettings(file)
    IN  IF loaded.err.set THEN [err |-> loaded.err, settings |-> file]
        ELSE [err |-> NoErr,
              settings |->
                [state |-> "ok",
                 PreToolUse |->
                    updateHookConfigs(loaded.settings.PreToolUse,
                                      MatcherPlugins(m, infos, "PreToolUse"), rangePre),
                 PostToolUse |->
                    updateHookConfigs(loaded.settings.PostToolUse,
                                      MatcherPlugins(m, infos, "PostToolUse"), rangePost)]]

(* loadPlugins(pm, paths): returns at the first plugin that fails to load *)
RECURSIVE loadPlugins(_, _, _)
loadPlugins(m, paths, arts) ==
    IF paths = <<>> THEN [pm |-> m, err |-> NoErr]
    ELSE LET r == LoadPlugin(m, Head(paths), arts[Head(paths)])
         IN  IF r.err.set
             THEN [pm |-> r.pm,
                   err |-> Err(<<"failed to load plugin ", Head(paths), ": ">>
                               \o r.err.msg)]
             ELSE loadPlugins(r.pm, Tail(paths), arts)

(* the plugins of the command line and the hook configs a file holds *)
ConfigurePaths == {"x/a.so", "x/b.so", "x/c.so", "x/env.so"}

ExistingConfigs ==
    [Matcher : {"Write", "Bash", "Other"},
     Hooks : {<<>>, <<[Type |-> "command", Command |-> <<"lint">>]>>}]

SettingsFiles ==
    {NoSettings, [NoSettings EXCEPT !.state = "unparsable"]}
    \cup [state : {"ok"},
          PreToolUse : SeqsUpTo(ExistingConfigs, MaxConfigs),
          PostToolUse : SeqsUpTo(ExistingConfigs, MaxConfigs - 1)]

InitConfigure ==
    /\ goOmitZero = TRUE
    /\ pluginPaths \in SeqsUpTo(ConfigurePaths, MaxPlugins)
    /\ pm = NewPluginManager("")
    /\ lastOp = NoOp
    /\ cleanups = {}
    /\ mu = Unlocked
    /\ calls = NoCalls
    /\ settings \in SettingsFiles
    /\ pc = "shell"
    /\ stdinRead = FALSE
    /\ input = NoInput
    /\ hookType = ""
    /\ plugins = <<>>
    /\ idx = 0
    /\ lastResult = NoLast
    /\ invoked = <<>>
    /\ lastResp = NoResp
    /\ codes = <<>>
    /\ outcome = NoOutcome
    /\ exitCode = Running
    /\ stdout = <<>>
    /\ stderr = <<>>

(* one run of the command: run, loadPlugins, handleConfigureCommand *)
Configure ==
    \E arts \in [Elems(pluginPaths) -> {"ok", "initfail"}] :
        LET loaded == loadPlugins(NewPluginManager(""), pluginPaths, arts)
            m == loaded.pm
        IN  \E infos \in Orders(m) :
            \E rangePre \in Perms(DOMAIN MatcherPlugins(m, infos, "PreToolUse")),
               rangePost \in Perms(DOMAIN MatcherPlugins(m, infos, "PostToolUse")) :
                LET r == IF loaded.err.set
                         THEN [err |-> loaded.err, settings |-> settings]
                         ELSE IF DOMAIN m.plugins = {}
                         THEN [err |-> Err(<<"no plugins loaded">>),
                               settings |-> settings]
                         ELSE updateSettingsFile(m, settings, infos, rangePre, rangePost)
                IN  /\ pm' = m
                    /\ settings' = r.settings
                    /\ lastOp' = [NoOp EXCEPT !.op = "configure", !.err = r.err,
                                              !.attempted = infos]
                    /\ UNCHANGED <<runVars, cleanups, mu, calls>>

NextConfigure == Configure

SpecConfigure == InitConfigure /\ [][NextConfigure]_vars

----------------------------------------------------------------------------
(* Properties *)

Done == pc = "done"

(* the verdict a handler passes on for what the plugin returned *)
Effective(hook, resp) ==
    IF resp.p.nil /\ hook \in {"PreToolUse", "PostToolUse", "Stop"}
    THEN withDefault(OutputType(hook), resp.p)
    ELSE resp.p

(* the last called plugin method returned, without error, a verdict whose  *)
(* decision is "block"                                                     *)
LastBlocked ==
    /\ lastResp.kind = "return"
    /\ ~lastResp.err.set
    /\ ~lastResp.p.nil
    /\ lastResp.p.v.Decision = ptr(<<"block">>)

(* the reason of the last returned verdict, an absent reason read as empty *)
LastReason == IF lastResp.p.v.Reason.set THEN lastResp.p.v.Reason.val ELSE <<>>

(* a text coerced to valid UTF-8 *)
ValidUTF8(text) == [i \in 1..Len(text) |-> IF text[i] = "xFF" THEN "uFFFD" ELSE text[i]]

(* the plugins after the last invoked one were not invoked *)
RestNotInvoked ==
    /\ Len(invoked) <= Len(plugins)
    /\ \A i \in 1..Len(invoked) : invoked[i].plugin = plugins[i]
    /\ \A i \in 1..Len(codes) : i < Len(codes) => codes[i] = ExitCodeSuccess

(* C1, as stated: when extension k is the first to return a block verdict  *)
(* without error, the process has ended with exit code 2, the extensions   *)
(* after k were not invoked and the stderr payload is k's reason followed  *)
(* by one newline.                                                         *)
C1_BlockStopsChainVerbatim ==
    LastBlocked =>
        /\ Done
        /\ exitCode = 2
        /\ RestNotInvoked
        /\ outcome.set
        /\ outcome.r.Error = LastReason \o <<"\n">>

(* C1, amended: as above, with the stderr payload being k's reason coerced *)
(* to valid UTF-8 (the reason is read back from the JSON encoding of the   *)
(* verdict), followed by one newline.                                      *)
C1_BlockStopsChain ==
    LastBlocked =>
        /\ Done
        /\ exitCode = 2
        /\ RestNotInvoked
        /\ Len(invoked) = idx + 1
        /\ outcome.set
        /\ outcome.r.Code = 2
        /\ outcome.r.Error = ValidUTF8(LastReason) \o <<"\n">>

(* the second of two extensions blocked with a reason; the first passed *)
C1_Witness ==
    /\ Done
    /\ LastBlocked
    /\ Len(plugins) = 2
    /\ Len(invoked) = 2
    /\ lastResp.p.v.Reason = ptr(<<"a">>)
    /\ exitCode = 2

(* the first of two extensions blocked; the second was never invoked *)
C1_WitnessFirst ==
    /\ Done
    /\ LastBlocked
    /\ Len(plugins) = 2
    /\ Len(invoked) = 1
    /\ exitCode = 2

(* C2: when the plugin method returns an error, the Result of that         *)
(* extension has Code 1 and the error text as its Error, whatever verdict  *)
(* came with the error.                                                    *)
C2_ErrorWins ==
    (lastResp.kind = "return" /\ lastResp.err.set) =>
        /\ Done
        /\ codes # <<>>
        /\ codes[Len(codes)] = 1
        /\ outcome.set
        /\ outcome.r.Code = 1
        /\ outcome.r.Error = lastResp.err.msg
        /\ outcome.r.Data = <<>>

(* an error came together with a verdict whose decision is "block" *)
C2_Witness ==
    /\ Done
    /\ lastResp.kind = "return"
    /\ lastResp.err.set
    /\ ~lastResp.p.nil
    /\ lastResp.p.v.Decision = ptr(<<"block">>)
    /\ exitCode = 1

(* C3: when extension k returns an error the process has ended with exit   *)
(* code 1 and the extensions after k were not invoked; an extension is     *)
(* invoked only after every extension before it gave an exit-code-0 result *)
C3_ErrorStopsChain ==
    /\ (lastResp.kind = "return" /\ lastResp.err.set) =>
          /\ Done
          /\ exitCode = 1
          /\ Len(invoked) = idx + 1
          /\ \A i \in 1..Len(plugins) :
                i > idx + 1 => \A c \in 1..Len(invoked) : invoked[c].plugin # plugins[i]
    /\ \A i \in 1..Len(invoked) : \A j \in 1..(i - 1) : codes[j] = 0

(* the first of two extensions returned an error *)
C3_Witness ==
    /\ Done
    /\ lastResp.kind = "return"
    /\ lastResp.err.set
    /\ Len(plugins) = 2
    /\ Len(invoked) = 1
    /\ exitCode = 1

(* the value under hook_event_name is missing, is no string, or is none of *)
(* the five literals                                                       *)
BadTag == input.tagKind # "string" \/ input.tagVal \notin HookNames

(* C4: for an event whose hook_event_name is missing, not a string or not  *)
(* one of the five literals, no plugin method is invoked and the process   *)
(* ends with exit code 1.                                                  *)
C4_UnknownKindFails ==
    (stdinRead /\ BadTag) =>
        /\ invoked = <<>>
        /\ idx = 0
        /\ lastResult.nil
        /\ Done => exitCode = 1

(* an event of kind "Other" met a loaded plugin *)
C4_Witness ==
    /\ Done
    /\ stdinRead
    /\ input.tagKind = "string"
    /\ input.tagVal = "Other"
    /\ plugins # <<>>
    /\ codes = <<1>>
    /\ exitCode = 1

(* the hook_event_name of the event is missing *)
C4_WitnessMissing ==
    /\ Done
    /\ stdinRead
    /\ input.json = "object"
    /\ input.tagKind = "missing"
    /\ exitCode = 1

(* C5: when no extension blocks or errors, every registered extension is   *)
(* invoked exactly once and the outcome is the success Result made from    *)
(* the verdict of the last extension alone.                                *)
C5_LastVerdictWins ==
    (/\ Done
     /\ lastResp.kind = "return"
     /\ codes # <<>>
     /\ \A i \in 1..Len(codes) : codes[i] = 0) =>
        /\ Len(invoked) = Len(plugins)
        /\ \A i \in 1..Len(plugins) : invoked[i].plugin = plugins[i]
        /\ \A i, j \in 1..Len(plugins) : plugins[i] = plugins[j] => i = j
        /\ exitCode = 0
        /\ outcome.set
        /\ outcome.r.Code = 0
        /\ outcome.r.Error = <<>>
        /\ outcome.r.Data =
              Render(Marshal(OutputType(hookType), Effective(hookType, lastResp)))

(* two extensions passed, the last one with a verdict of its own *)
C5_Witness ==
    /\ Done
    /\ Len(plugins) = 2
    /\ codes = <<0, 0>>
    /\ ~lastResp.p.nil
    /\ lastResp.p.v.Decision = ptr(<<"deny">>)
    /\ exitCode = 0

(* the plugin method returned (nil, nil) *)
LastAbsent == lastResp = Return(NilPtr, NoErr)

(* the Result of the last iteration of the dispatch loop *)
LastCallResult == IF Done THEN outcome.r ELSE lastResult.r

(* {"continue":true,"decision":"approve","reason":""} *)
ApprovePayload ==
    <<"{", "\"", "continue", "\":", "true", ",",
           "\"", "decision", "\":", "\"", "approve", "\"", ",",
           "\"", "reason", "\":", "\"", "\"", "}">>

(* C6: for a PreToolUse event an absent verdict without error is replaced  *)
(* by the default with decision "approve" and continue true; the Result   *)
(* has Code 0 and the serialized approve verdict as payload, and a chain   *)
(* that ends so exits with code 0.                                         *)
C6_PreToolUseDefaultApproves ==
    (hookType = "PreToolUse" /\ LastAbsent) =>
        /\ codes[Len(codes)] = 0
        /\ LastCallResult.Code = 0
        /\ LastCallResult.Data = ApprovePayload
        /\ Done => (exitCode = 0 /\ outcome.set /\ Len(invoked) = Len(plugins))

(* a chain of two extensions ended with an absent PreToolUse verdict *)
C6_Witness ==
    /\ Done
    /\ hookType = "PreToolUse"
    /\ LastAbsent
    /\ Len(invoked) = 2
    /\ exitCode = 0

(* {"continue":true}, with null members where omitzero is not known *)
NoOpinionPayload ==
    IF goOmitZero
    THEN <<"{", "\"", "continue", "\":", "true", "}">>
    ELSE <<"{", "\"", "continue", "\":", "true", ",",
                "\"", "decision", "\":", "null", ",",
                "\"", "reason", "\":", "null", "}">>

(* C7: for a PostToolUse or Stop event an absent verdict without error is  *)
(* replaced by the default with continue true and no decision; its Result  *)
(* has Code 0, never 2.                                                    *)
C7_PostStopDefaultNoOpinion ==
    (hookType \in {"PostToolUse", "Stop"} /\ LastAbsent) =>
        /\ codes[Len(codes)] = 0
        /\ LastCallResult.Code = 0
        /\ LastCallResult.Error = <<>>
        /\ LastCallResult.Data = NoOpinionPayload

(* a Stop event answered with an absent verdict *)
C7_Witness ==
    /\ Done
    /\ hookType = "Stop"
    /\ LastAbsent
    /\ exitCode = 0

(* C8: for a Notification or SubagentStop event an absent verdict without  *)
(* error gives a success Result with an empty payload.                     *)
C8_AbsentGivesEmptySuccess ==
    (hookType \in {"Notification", "SubagentStop"} /\ LastAbsent) =>
        /\ LastCallResult.Code = 0
        /\ LastCallResult.Data = <<>>

(* C9: with no plugin loaded the execute command ends with exit code 1,    *)
(* standard input unread and no plugin method invoked.                     *)
C9_EmptyRegistryFails ==
    (Done /\ pluginPaths = <<>> /\ DOMAIN pm.plugins = {}) =>
        /\ exitCode = 1
        /\ ~stdinRead
        /\ input = NoInput
        /\ invoked = <<>>
        /\ ~outcome.set

(* the execute command ran on an empty registry *)
C9_Witness ==
    /\ Done
    /\ pluginPaths = <<>>
    /\ DOMAIN pm.plugins = {}
    /\ plugins = <<>>
    /\ exitCode = 1

(* C10: the process ends with the Code of the final Result, having written *)
(* the success payload to standard output when the Code is 0 and the       *)
(* error payload to standard error otherwise, byte for byte.               *)
C10_ExitTranslator ==
    (Done /\ outcome.set) =>
        /\ exitCode = outcome.r.Code
        /\ IF outcome.r.Code = 0
           THEN stdout = outcome.r.Data /\ stderr = <<>>
           ELSE stderr = outcome.r.Error /\ stdout = <<>>

----------------------------------------------------------------------------
(* C11: the exit code is always 0, 1 or 2, and it is 2 exactly when some   *)
(* invoked extension returned, without an error, a verdict whose decision  *)
(* is "block"; a decode failure, an extension error and an extension that  *)
(* aborts on an unimplemented method all end with a code other than 2.     *)
(* The panic of an unimplemented method ends the process with status 2.    *)
C11_ExitCodeTwoIffBlock ==
    Done =>
        /\ exitCode \in {ExitCodeSuccess, ExitCodeError, ExitCodeBlockingError}
        /\ (exitCode = ExitCodeBlockingError) <=> LastBlocked
        /\ (lastResp = Panic) => exitCode # ExitCodeBlockingError

----------------------------------------------------------------------------
(* text s occurs in text t *)
Contains(t, s) ==
    \E k \in 0..Len(t) :
        /\ k + Len(s) <= Len(t)
        /\ \A i \in 1..Len(s) : t[k + i] = s[i]

(* the file is named ".env" or ".env.<suffix>", in any letter case *)
EnvFileName(p) ==
    \E i \in 1..Len(p) :
        /\ i + 1 <= Len(p)
        /\ p[i] = "." /\ ToLower(p[i + 1]) = "env"
        /\ \/ i + 1 = Len(p)
           \/ i + 2 < Len(p) /\ p[i + 2] = "."

(* the name ends in .example, .sample, .template or .dist *)
ExampleFileName(p) ==
    /\ Len(p) >= 2
    /\ p[Len(p) - 1] = "." /\ ToLower(p[Len(p)]) \in ExampleWords

RealEnvFile(p) == EnvFileName(p) /\ ~ExampleFileName(p)

(* the run is a PreToolUse event with the env plugin as the only one *)
EnvAlone == plugins = <<EnvPath>> /\ hookType = "PreToolUse" /\ Done

(* C12: with the env plugin as the only loaded extension, a PreToolUse     *)
(* event whose file path is a real env file (".env" or ".env.<suffix>",   *)
(* not an example, sample, template or dist file) ends with exit code 2    *)
(* and an error payload that contains the file path; an example file or a  *)
(* file that is no env file ends with exit code 0 and the approve verdict  *)
(* as success payload.                                                     *)
C12_EnvPluginVerdict ==
    EnvAlone =>
        IF RealEnvFile(input.filePath)
        THEN /\ exitCode = ExitCodeBlockingError
             /\ outcome.set /\ Contains(outcome.r.Error, input.filePath)
        ELSE /\ exitCode = ExitCodeSuccess
             /\ outcome.set /\ outcome.r.Data = ApprovePayload

----------------------------------------------------------------------------
(* the plugin declares, by a matcher of its metadata, that it supports the *)
(* event kind of the method                                                *)
Declares(plugin, method) ==
    /\ method \in {"PreToolUse", "PostToolUse"}
    /\ GetMetadata(plugin)[method] # ""

(* C13: the host never invokes, on a loaded extension, the method of an    *)
(* event kind the extension did not declare support for, and so no         *)
(* dispatch reaches a method of UnimplementedPlugin that aborts.           *)
C13_OnlyDeclaredKindsInvoked ==
    /\ \A i \in 1..Len(invoked) : Declares(invoked[i].plugin, invoked[i].method)
    /\ lastResp # Panic

----------------------------------------------------------------------------
(* C14: unload(name) of a registered extension whose Cleanup returns an    *)
(* error reports the error and still removes the extension from both maps  *)
(* of the registry.  UnloadPlugin returns the error before the deletes.    *)
C14_UnloadRemovesDespiteCleanupError ==
    (lastOp.op = "UnloadPlugin" /\ lastOp.old # "" /\ lastOp.failed # {}) =>
        /\ lastOp.err.set
        /\ lastOp.arg \notin DOMAIN pm.plugins
        /\ lastOp.arg \notin DOMAIN pm.pluginPaths

(* the values of a map as a set *)
Values(m) == {m[k] : k \in DOMAIN m}

(* C15: shutdown() calls Cleanup exactly once on every extension that is   *)
(* registered when it is called, leaves both maps of the registry empty    *)
(* whether or not a Cleanup failed, and returns an error exactly when at   *)
(* least one Cleanup failed.                                               *)
C15_ShutdownCleansAllAndEmpties ==
    [][lastOp'.op = "Shutdown" =>
          /\ Elems(lastOp'.cleaned) = Values(pm.plugins)
          /\ Len(lastOp'.cleaned) = Cardinality(DOMAIN pm.plugins)
          /\ DOMAIN pm'.plugins = {} /\ DOMAIN pm'.pluginPaths = {}
          /\ lastOp'.err.set <=> lastOp'.failed # {}]_vars

(* a shutdown of two extensions of which the Cleanup of one failed *)
C15_Witness ==
    /\ lastOp.op = "Shutdown"
    /\ Len(lastOp.cleaned) = 2
    /\ Cardinality(lastOp.failed) = 1
    /\ lastOp.err.set
    /\ DOMAIN pm.plugins = {}

(* C16: shutdown() is idempotent: a shutdown that directly follows a       *)
(* shutdown returns no error, calls no Cleanup and leaves the registry     *)
(* empty.                                                                  *)
C16_ShutdownIdempotent ==
    (lastOp.op = "Shutdown" /\ lastOp.afterShutdown) =>
        /\ ~lastOp.err.set
        /\ lastOp.cleaned = <<>>
        /\ DOMAIN pm.plugins = {} /\ DOMAIN pm.pluginPaths = {}

(* a second shutdown in a row, after a first one that had extensions to    *)
(* clean up                                                                *)
C16_Witness ==
    /\ lastOp.op = "Shutdown" /\ lastOp.afterShutdown
    /\ cleanups # {}
    /\ lastOp.count = 0

(* C17: a load(path) that fails at any step (missing file, open failure,   *)
(* missing or ill-typed New, nil instance, Initialize error) returns an    *)
(* error and leaves the registry as it was: no entry is added and an entry *)
(* registered before under the name of path is kept.                       *)
C17_FailedLoadLeavesRegistry ==
    [][(lastOp'.op = "LoadPlugin" /\ lastOp'.arts[lastOp'.arg] # "ok") =>
          /\ lastOp'.err.set
          /\ pm' = pm]_vars

(* a load that failed in Initialize while another instance was registered  *)
(* under the same name, which is still there                               *)
C17_Witness ==
    /\ lastOp.op = "LoadPlugin"
    /\ lastOp.arts[lastOp.arg] = "initfail"
    /\ lastOp.err.set
    /\ lastOp.old # "" /\ lastOp.old # lastOp.arg
    /\ pm.plugins[Base(lastOp.arg)] = lastOp.old

(* a failed load of each of the other kinds *)
C17_WitnessKinds ==
    /\ lastOp.op = "LoadPlugin"
    /\ lastOp.arts[lastOp.arg] \in {"missing", "openfail", "nolookup", "badsig", "nilinst"}
    /\ lastOp.err.set
    /\ lastOp.count = 2

(* C18: two successful loads whose paths derive the same name leave one    *)
(* entry under that name, which holds the instance and the path of the     *)
(* later load; the number of registered extensions does not grow on the    *)
(* second load.                                                            *)
C18_DuplicateNameOverwrites ==
    (lastOp.op = "LoadPlugin" /\ ~lastOp.err.set /\ lastOp.old # "") =>
        /\ Cardinality(DOMAIN pm.plugins) = lastOp.count
        /\ DOMAIN pm.pluginPaths = DOMAIN pm.plugins
        /\ pm.plugins[Base(lastOp.arg)] = lastOp.arg
        /\ pm.pluginPaths[Base(lastOp.arg)] = Abs(lastOp.arg)

(* a successful load over an entry that held an instance of another path *)
C18_Witness ==
    /\ lastOp.op = "LoadPlugin" /\ ~lastOp.err.set
    /\ lastOp.old # "" /\ lastOp.old # lastOp.arg
    /\ lastOp.count = 2

(* C19: every instance whose Initialize succeeded receives Cleanup exactly *)
(* once before the host process ends, on every exit path of a run.  No     *)
(* path of run calls UnloadPlugin or Shutdown.                             *)
C19_CleanupBeforeExit ==
    Done => \A name \in DOMAIN pm.plugins : pm.plugins[name] \in cleanups

(* C20: loadAll over a directory (the directory is set, exists and is      *)
(* listed) calls load on every artifact file directly in it; a failing     *)
(* load does not stop the remaining loads; every artifact that loads is    *)
(* registered; the error it returns is non-nil exactly when at least one   *)
(* load failed, and it names every artifact that failed.                   *)
C20_LoadAllAccumulates ==
    (lastOp.op = "LoadAllPlugins" /\ lastOp.arg # "" /\ lastOp.dir = "listed") =>
        LET bad == {f \in Elems(lastOp.files) : lastOp.arts[f] # "ok"}
        IN  /\ lastOp.attempted = lastOp.files
            /\ \A f \in Elems(lastOp.files) \ bad :
                  /\ Base(f) \in DOMAIN pm.plugins /\ pm.plugins[Base(f)] = f
                  /\ Base(f) \in DOMAIN pm.pluginPaths /\ pm.pluginPaths[Base(f)] = Abs(f)
            /\ lastOp.err.set <=> bad # {}
            /\ \A f \in bad : Contains(lastOp.err.msg, <<f>>)

(* a loadAll whose first artifact failed and whose second one was loaded   *)
(* and registered                                                          *)
C20_Witness ==
    /\ lastOp.op = "LoadAllPlugins" /\ lastOp.dir = "listed"
    /\ lastOp.files = <<"x/a.so", "x/b.so">>
    /\ lastOp.arts["x/a.so"] = "initfail" /\ lastOp.arts["x/b.so"] = "ok"
    /\ lastOp.err.set
    /\ "b.so" \in DOMAIN pm.plugins

----------------------------------------------------------------------------
(* the last called plugin method returned, without error, a verdict whose  *)
(* continue is false                                                       *)
LastStops ==
    /\ lastResp.kind = "return"
    /\ ~lastResp.err.set
    /\ ~lastResp.p.nil
    /\ lastResp.p.v.Continue = "false"

(* C23: when the verdict that determines the outcome has continue false,   *)
(* the outcome carries continue false and the stopReason, whatever the     *)
(* decision of the verdict is, "block" included.  A block verdict ends in  *)
(* a Result whose only content is the reason.                              *)
C23_ContinueFalseConveyed ==
    (Done /\ outcome.set /\ LastStops) =>
        LET said == outcome.r.Data \o outcome.r.Error
        IN  /\ Contains(said, <<"\"", "continue", "\":", "false">>)
            /\ Contains(said, <<"\"", "stopReason", "\":">>)

(* C24: an event with a recognized kind tag whose kind-specific fields are *)
(* malformed, mistyped or missing ends with exit code 1 and no extension   *)
(* method is invoked.  An event whose fields are missing decodes without   *)
(* error into zero values and is passed to the extension.                  *)
C24_BadFieldsNeverReachExtension ==
    (hookType \in HookNames /\ input.body \in {"mistyped", "missing"}) =>
        /\ invoked = <<>>
        /\ Done => exitCode = ExitCodeError

(* C29: a Notification event never ends with exit code 2: whatever the     *)
(* extensions of the chain do, the exit code is 0 or 1.  The panic of an   *)
(* unimplemented Notification method ends the process with status 2.       *)
C29_NotificationNeverTwo ==
    (Done /\ hookType = "Notification") =>
        exitCode \in {ExitCodeSuccess, ExitCodeError}

----------------------------------------------------------------------------
(* C27: dispatch is deterministic: the runs of one command line on one     *)
(* event invoke the extensions in one order, the order in which they were  *)
(* loaded, and so end alike when the extensions are deterministic.         *)
(* Plugins() ranges over a Go map, whose order changes from run to run.    *)
C27_InvokedInLoadOrder ==
    /\ plugins # <<>> => plugins = CmdLine
    /\ \A i \in 1..Len(invoked) : invoked[i].plugin = CmdLine[i]

----------------------------------------------------------------------------
(* C28: after Stop(userMessage) on a verdict whose continue field is unset *)
(* the verdict has continue = false and stopReason = userMessage.          *)
(* Stop sets an unset continue to true.                                    *)
C28_StopSetsContinueFalse ==
    (lastOp.op = "Stop" /\ lastOp.old = "nil") =>
        /\ lastResp.p.v.Continue = "false"
        /\ lastResp.p.v.StopReason = lastOp.arg

(* C22: a verdict built by Approve(false, ...), Block(msg) or              *)
(* NotAllowed(msg) with decision "block" has a reason that is present and  *)
(* not empty, an empty or omitted message being replaced by a fallback.    *)
(* Only Approve has a fallback, and only for an omitted message.           *)
C22_BlockHasReason ==
    (/\ lastOp.op \in {"Approve", "Block", "NotAllowed"}
     /\ lastResp.p.v.Decision = ptr(<<"block">>)) =>
        /\ lastResp.p.v.Reason.set
        /\ lastResp.p.v.Reason.val # <<>>

(* C21: a verdict of a decision-bearing type whose decision was never set  *)
(* encodes to a document whose key-map has no "decision" key, and one      *)
(* whose reason was never set to one with no "reason" key.  A toolchain    *)
(* that does not know omitzero writes both keys with the value null.       *)
C21_UnsetKeysAbsent ==
    LET doc == Marshal(OutputType(hookType), lastResp.p)
    IN  (/\ pc = "encoded"
         /\ stdout = Render(doc)
         /\ OutputType(hookType) \in DecisionTypes) =>
            /\ ~lastResp.p.v.Decision.set => "decision" \notin Keys(doc)
            /\ ~lastResp.p.v.Reason.set => "reason" \notin Keys(doc)

----------------------------------------------------------------------------
(* C25: every mutation of the registry excludes every other mutation and   *)
(* every read of its maps, the enumeration dispatch uses included: no      *)
(* goroutine is writing the maps while another is writing or reading them. *)
(* Plugins() ranges over pm.plugins without taking the lock.               *)
C25_MutationsExclusive ==
    \A g \in Goroutines, h \in Goroutines :
        (g # h /\ calls[g].at = "write") => calls[h].at \notin {"read", "write"}

(* C26: the registry lock is never held while a method of an extension is  *)
(* executing: a goroutine that is in Initialize, Cleanup, GetMetadata or   *)
(* an event method holds neither Lock nor RLock.                           *)
(* LoadPlugin, UnloadPlugin, Shutdown and ListPlugins call them under it.  *)
C26_NoLockAcrossExtension ==
    \A g \in Goroutines :
        calls[g].at \in ExtensionMethods => (mu.w # g /\ g \notin mu.r)

----------------------------------------------------------------------------
(* the names of the loaded plugins that declare matcher for the event kind *)
Declaring(m, kind, matcher) ==
    {name \in DOMAIN m.plugins : GetMetadata(m.plugins[name])[kind] = matcher}

DeclaredMatchers(m, kind) ==
    {GetMetadata(m.plugins[name])[kind] : name \in DOMAIN m.plugins} \ {""}

(* hooks holds exactly one "claude-plugin <name> execute" per name *)
OnePerPlugin(hooks, names) ==
    /\ Len(hooks) = Cardinality(names)
    /\ Elems(hooks) = {HookEntries(<<name>>)[1] : name \in names}

(* a run of configure succeeded in this step *)
Configured == lastOp'.op = "configure" /\ ~lastOp'.err.set

(* old and new: the list of one event kind before and after the merge *)
MergedKind(m, kind, old, new) ==
    LET declared == DeclaredMatchers(m, kind)
        had == {old[i].Matcher : i \in 1..Len(old)}
        tail == SubSeq(new, Len(old) + 1, Len(new))
    IN  /\ Len(new) >= Len(old)
        /\ \A i \in 1..Len(old) :
              IF old[i].Matcher \in declared
              THEN /\ new[i].Matcher = old[i].Matcher
                   /\ OnePerPlugin(new[i].Hooks, Declaring(m, kind, old[i].Matcher))
              ELSE new[i] = old[i]
        /\ Len(tail) = Cardinality(declared \ had)
        /\ {tail[i].Matcher : i \in 1..Len(tail)} = declared \ had
        /\ \A i \in 1..Len(tail) :
              OnePerPlugin(tail[i].Hooks, Declaring(m, kind, tail[i].Matcher))

(* C30, the merge: entries of undeclared matchers stay as they are and     *)
(* where they are, entries of declared matchers get one command per        *)
(* declaring plugin, and one entry is appended per declared matcher that   *)
(* had none.                                                               *)
ConfigureMergesKinds ==
    [][Configured =>
          /\ MergedKind(pm', "PreToolUse", settings.PreToolUse, settings'.PreToolUse)
          /\ MergedKind(pm', "PostToolUse", settings.PostToolUse, settings'.PostToolUse)]_vars

(* C30, the second application when ListPlugins returns the same order *)
ConfigureSameOrderIdempotent ==
    [][(Configured /\ lastOp.op = "configure" /\ ~lastOp.err.set
         /\ lastOp'.attempted = lastOp.attempted) => settings' = settings]_vars

(* C30: the configure merge keeps the entries of undeclared matchers       *)
(* unchanged and in order, gives the entries of declared matchers exactly  *)
(* one "claude-plugin <name> execute" per declaring plugin, appends one    *)
(* entry per declared matcher without one, and a second application with   *)
(* the same extensions changes nothing.                                    *)
C30_ConfigureMerge ==
    [][Configured =>
          /\ MergedKind(pm', "PreToolUse", settings.PreToolUse, settings'.PreToolUse)
          /\ MergedKind(pm', "PostToolUse", settings.PostToolUse, settings'.PostToolUse)
          /\ (lastOp.op = "configure" /\ ~lastOp.err.set) => settings' = settings]_vars

====
